---- MODULE Spec2Model ----
(***************************************************************************)
(* Model of the assessment command of security-policy-builder              *)
(* (src/src/commands/psp-assess.ts): run, getRisksFromRegistry,            *)
(* gatherInputs and calculateInputGaps.                                    *)
(*                                                                         *)
(* Strings that the code inspects character by character (object keys,     *)
(* gap refs) are sequences of one-character strings.  JavaScript values    *)
(* are records [type, val].  JavaScript objects are sequences of           *)
(* [key, val] entries with distinct keys, in insertion order.              *)
(***************************************************************************)
EXTENDS Integers, Sequences, FiniteSets

VARIABLES
    pc,          \* position of run() (or of a direct call of calculateInputGaps)
    program,     \* the parsed command line options (ProgramInput)
    config,      \* the config object read from the config file
    riskList,    \* local riskList of run()
    calls,       \* number of calls made to each collaborator
    rawAnswers,  \* the mapping as the prompt service resolved it (snapshot)
    answers,     \* the object bound to `answers` in gatherInputs
    inputs,      \* the object bound to `inputs` in run / calculateInputGaps
    inputGaps,   \* result of calculateInputGaps
    cpGaps,      \* cpGaps as resolved by assessment.calculateCPGaps
    allGaps,     \* local allGaps of run()
    reportCtx,   \* the context generateReport was called with
    completed,   \* the steps of run() that have completed
    failure,     \* the operation that failed, "none" while none has
    outcome      \* how the run ended

vars == <<pc, program, config, riskList, calls, rawAnswers, answers, inputs,
          inputGaps, cpGaps, allGaps, reportCtx, completed, failure, outcome>>

(***************************************************************************)
(* Bounds of the model.                                                    *)
(***************************************************************************)
MaxTopicLen == 2
MaxInputKeys == 2
MaxCPGaps == 2

(***************************************************************************)
(* Characters and strings.                                                 *)
(***************************************************************************)
UpperCase == {"A", "B", "C", "D", "E", "F", "G", "H", "I", "J", "K", "L", "M",
              "N", "O", "P", "Q", "R", "S", "T", "U", "V", "W", "X", "Y", "Z"}

LowerCase == {"a", "b", "c", "d", "e", "f", "g", "h", "i", "j", "k", "l", "m",
              "n", "o", "p", "q", "r", "s", "t", "u", "v", "w", "x", "y", "z"}

WhiteSpace == {" "}

SeqsUpTo(S, n) == UNION {[1..k -> S] : k \in 0..n}

SetMin(S) == CHOOSE x \in S : \A y \in S : x <= y

SetMax(S) == CHOOSE x \in S : \A y \in S : x >= y

K_hasPenTestGap == <<"h", "a", "s", "P", "e", "n", "T", "e", "s", "t", "G", "a", "p">>
K_hasEncryptionGap == <<"h", "a", "s", "E", "n", "c", "r", "y", "p", "t", "i", "o", "n", "G", "a", "p">>
K_lastPenTestDate == <<"l", "a", "s", "t", "P", "e", "n", "T", "e", "s", "t", "D", "a", "t", "e">>
K_lastPenTestProvider == <<"l", "a", "s", "t", "P", "e", "n", "T", "e", "s", "t", "P", "r", "o", "v", "i", "d", "e", "r">>
K_penTestFrequency == <<"p", "e", "n", "T", "e", "s", "t", "F", "r", "e", "q", "u", "e", "n", "c", "y">>
K_nextPenTestDate == <<"n", "e", "x", "t", "P", "e", "n", "T", "e", "s", "t", "D", "a", "t", "e">>
K_date == <<"d", "a", "t", "e">>
K_policyTOC == <<"p", "o", "l", "i", "c", "y", "T", "O", "C">>
K_isHIPAACoveredEntity == <<"i", "s", "H", "I", "P", "A", "A", "C", "o", "v", "e", "r", "e", "d", "E", "n", "t", "i", "t", "y">>
K_isHIPAABusinessAssociate == <<"i", "s", "H", "I", "P", "A", "A", "B", "u", "s", "i", "n", "e", "s", "s", "A", "s", "s", "o", "c", "i", "a", "t", "e">>
K_isHIPAACoveredEntityText == <<"i", "s", "H", "I", "P", "A", "A", "C", "o", "v", "e", "r", "e", "d", "E", "n", "t", "i", "t", "y", "T", "e", "x", "t">>
K_isHIPAABusinessAssociateText == <<"i", "s", "H", "I", "P", "A", "A", "B", "u", "s", "i", "n", "e", "s", "s", "A", "s", "s", "o", "c", "i", "a", "t", "e", "T", "e", "x", "t">>
K_gapList == <<"g", "a", "p", "L", "i", "s", "t">>
K_gapSummary == <<"g", "a", "p", "S", "u", "m", "m", "a", "r", "y">>
K_hipaaControlsMapping == <<"h", "i", "p", "a", "a", "C", "o", "n", "t", "r", "o", "l", "s", "M", "a", "p", "p", "i", "n", "g">>
K_riskList == <<"r", "i", "s", "k", "L", "i", "s", "t">>
K_companyFullName == <<"c", "o", "m", "p", "a", "n", "y", "F", "u", "l", "l", "N", "a", "m", "e">>

(***************************************************************************)
(* JavaScript values and objects.                                          *)
(***************************************************************************)
JSTrue == [type |-> "boolean", val |-> "true"]

JSFalse == [type |-> "boolean", val |-> "false"]

JSUndefined == [type |-> "undefined", val |-> "undefined"]

Str(s) == [type |-> "string", val |-> s]

\* ToBoolean: undefined, false and the empty string are falsy.
Truthy(v) == ~(v = JSUndefined \/ v = JSFalse \/ v = Str(""))

\* The ! operator.
JSNot(v) == IF Truthy(v) THEN JSFalse ELSE JSTrue

EmptyObj == << >>

ObjKeys(obj) == [i \in DOMAIN obj |-> obj[i].key]

HasKey(obj, k) == \E i \in DOMAIN obj : obj[i].key = k

\* obj[k]: the value of an own property, undefined when there is none.
Get(obj, k) ==
    IF HasKey(obj, k)
    THEN obj[CHOOSE i \in DOMAIN obj : obj[i].key = k].val
    ELSE JSUndefined

\* obj[k] = v: an existing property keeps its place, a new one is appended.
Put(obj, k, v) ==
    IF HasKey(obj, k)
    THEN [i \in DOMAIN obj |-> IF obj[i].key = k THEN [key |-> k, val |-> v] ELSE obj[i]]
    ELSE Append(obj, [key |-> k, val |-> v])

\* Object.assign(target, src) / spread of src after target: src's entries in order.
RECURSIVE ObjAssign(_, _)
ObjAssign(target, src) ==
    IF src = << >> THEN target
    ELSE ObjAssign(Put(target, Head(src).key, Head(src).val), Tail(src))

DistinctKeys(obj) == \A i, j \in DOMAIN obj : obj[i].key = obj[j].key => i = j

(***************************************************************************)
(* calculateInputGaps (psp-assess.ts:171-191).                             *)
(***************************************************************************)
HasAt(s, i) == i >= 1 /\ i + 2 <= Len(s) /\ s[i] = "h" /\ s[i + 1] = "a" /\ s[i + 2] = "s"

GapAt(s, j) == j >= 1 /\ j + 2 <= Len(s) /\ s[j] = "G" /\ s[j + 1] = "a" /\ s[j + 2] = "p"

\* Start positions at which /has(.*)Gap/ can match: "has", later "Gap".
MatchStarts(s) == {i \in 1..Len(s) : HasAt(s, i) /\ \E j \in (i + 3)..Len(s) : GapAt(s, j)}

\* /has.*Gap/.test(s), and /has(.*)Gap/.exec(s) !== null: the pattern is not anchored.
MatchesGapPattern(s) == MatchStarts(s) # {}

\* match[1]: the leftmost match, its group greedy up to the last "Gap".
CaptureTopic(s) ==
    LET i == SetMin(MatchStarts(s))
        j == SetMax({j \in (i + 3)..Len(s) : GapAt(s, j)})
    IN  SubSeq(s, i + 3, j - 1)

\* Variant: the classes swapped, /([a-z])([A-Z])/ with the space between the two.
ReplaceUpperLower_LowerUpper(name) ==
    LET RECURSIVE scan(_)
        scan(i) ==
            IF i > Len(name) THEN << >>
            ELSE IF i < Len(name) /\ name[i] \in LowerCase /\ name[i + 1] \in UpperCase
                 THEN <<name[i], " ", name[i + 1]>> \o scan(i + 2)
                 ELSE <<name[i]>> \o scan(i + 1)
    IN  scan(1)

\* name.replace(/([A-Z])([a-z])/g, (m, upper, lower) => ` ${upper}${lower}`):
\* matches are found left to right and do not overlap.
ReplaceUpperLower(name) ==
    LET RECURSIVE scan(_)
        scan(i) ==
            IF i > Len(name) THEN << >>
            ELSE IF i < Len(name) /\ name[i] \in UpperCase /\ name[i + 1] \in LowerCase
                 THEN <<" ", name[i], name[i + 1]>> \o scan(i + 2)
                 ELSE <<name[i]>> \o scan(i + 1)
    IN  scan(1)

\* String.prototype.trim
RECURSIVE Trim(_)
Trim(s) ==
    IF s = << >> THEN s
    ELSE IF Head(s) \in WhiteSpace THEN Trim(Tail(s))
    ELSE IF s[Len(s)] \in WhiteSpace THEN Trim(SubSeq(s, 1, Len(s) - 1))
    ELSE s

Ref(name) == Trim(ReplaceUpperLower(name))

NewGap(ref) == [ref |-> ref, title |-> "(see above)"]

\* The loop over Object.keys(inputs): one gap per key the pattern matches; the
\* value stored under the key is not read.
RECURSIVE calculateInputGaps(_)
calculateInputGaps(obj) ==
    IF obj = << >> THEN << >>
    ELSE IF MatchesGapPattern(Head(obj).key)
         THEN <<NewGap(Ref(CaptureTopic(Head(obj).key)))>> \o calculateInputGaps(Tail(obj))
         ELSE calculateInputGaps(Tail(obj))

(***************************************************************************)
(* Direct calls of the exported calculateInputGaps on bounded mappings.    *)
(***************************************************************************)
K_hasHIPAATrainingGap == <<"h", "a", "s", "H", "I", "P", "A", "A", "T", "r", "a", "i", "n", "i", "n", "g", "G", "a", "p">>
K_hasGapGap == <<"h", "a", "s", "G", "a", "p", "G", "a", "p">>
K_xhasPenTestGaps == <<"x", "h", "a", "s", "P", "e", "n", "T", "e", "s", "t", "G", "a", "p", "s">>
K_hasgap == <<"h", "a", "s", "g", "a", "p">>
K_Gaphas == <<"G", "a", "p", "h", "a", "s">>
K_hasPen_Gap == <<"h", "a", "s", "P", "e", "n", " ", "G", "a", "p">>

TopicAlphabet == {"a", "B"}

Topics == SeqsUpTo(TopicAlphabet, MaxTopicLen)

GapKeys == {<<"h", "a", "s">> \o t \o <<"G", "a", "p">> : t \in Topics}

InputKeys ==
    GapKeys \cup {K_hasPenTestGap, K_hasHIPAATrainingGap, K_hasGapGap, K_xhasPenTestGaps, K_hasgap,
                  K_Gaphas, K_hasPen_Gap, K_lastPenTestDate}

InputValues == {JSTrue, JSFalse, Str("x")}

InputEntries == [key : InputKeys, val : InputValues]

IsInputMapping(m) ==
    \E k \in 0..MaxInputKeys : m \in [1..k -> InputEntries] /\ DistinctKeys(m)

Running == [kind |-> "running", code |-> 0]

NoCalls == [risks |-> 0, prompt |-> 0, cpGaps |-> 0, report |-> 0]

NoProgram == [standard |-> FALSE, config |-> FALSE, includeRisks |-> FALSE,
              account |-> FALSE, apiToken |-> FALSE]

InitGaps ==
    /\ pc = "fn_call"
    /\ IsInputMapping(inputs)
    /\ inputGaps = << >>
    /\ program = NoProgram
    /\ config = EmptyObj
    /\ riskList = ""
    /\ calls = NoCalls
    /\ rawAnswers = EmptyObj
    /\ answers = EmptyObj
    /\ cpGaps = << >>
    /\ allGaps = << >>
    /\ reportCtx = EmptyObj
    /\ completed = {}
    /\ failure = "none"
    /\ outcome = Running

CallCalculateInputGaps ==
    /\ pc = "fn_call"
    /\ inputGaps' = calculateInputGaps(inputs)
    /\ pc' = "fn_returned"
    /\ UNCHANGED <<program, config, riskList, calls, rawAnswers, answers, inputs,
                   cpGaps, allGaps, reportCtx, completed, failure, outcome>>

NextGaps == CallCalculateInputGaps

SpecGaps == InitGaps /\ [][NextGaps]_vars

(***************************************************************************)
(* gatherInputs (psp-assess.ts:206-246).                                   *)
(***************************************************************************)
TBD == Str("*TBD*")

\* Variant: the list without its last question.
PEN_TEST_QUESTIONS_MissingLast ==
    <<K_lastPenTestDate, K_lastPenTestProvider, K_penTestFrequency>>

PEN_TEST_QUESTIONS ==
    <<K_lastPenTestDate, K_lastPenTestProvider, K_penTestFrequency, K_nextPenTestDate>>

\* Variant: the inversion applied twice.
InvertGapAnswers_Twice(a) ==
    [i \in DOMAIN a |->
        IF MatchesGapPattern(a[i].key)
        THEN [key |-> a[i].key, val |-> JSNot(JSNot(a[i].val))]
        ELSE a[i]]

\* Object.keys(answers).filter(/has.*Gap/.test).forEach(gap => answers[gap] = !answers[gap])
InvertGapAnswers(a) ==
    [i \in DOMAIN a |->
        IF MatchesGapPattern(a[i].key)
        THEN [key |-> a[i].key, val |-> JSNot(a[i].val)]
        ELSE a[i]]

RECURSIVE PutAll(_, _, _)
PutAll(obj, keys, v) ==
    IF keys = << >> THEN obj
    ELSE PutAll(Put(obj, Head(keys), v), Tail(keys), v)

\* if (answers.hasPenTestGap) PEN_TEST_QUESTIONS.forEach(item => answers[item] = '*TBD*')
SuppressPenTest(a) ==
    IF Truthy(Get(a, K_hasPenTestGap))
    THEN PutAll(a, PEN_TEST_QUESTIONS, TBD)
    ELSE a

IsText(v) == IF Truthy(v) THEN Str("is") ELSE Str("is not")

\* The fields the returned object literal lists after the two spreads.
DerivedFields(org) ==
    << [key |-> K_date, val |-> [type |-> "date", val |-> "now"]],
       [key |-> K_policyTOC, val |-> Str("generatePolicyTOC(config)")],
       [key |-> K_isHIPAACoveredEntityText,
        val |-> IsText(Get(org, K_isHIPAACoveredEntity))],
       [key |-> K_isHIPAABusinessAssociateText,
        val |-> IsText(Get(org, K_isHIPAABusinessAssociate))] >>

\* { ...org, ...answers, date, policyTOC, isHIPAA...Text }: a new object.
GatherContext(org, a) ==
    ObjAssign(ObjAssign(ObjAssign(EmptyObj, org), a), DerivedFields(org))

(***************************************************************************)
(* Inputs of a run: command line, config file, interview answers, and the  *)
(* gaps the control/procedure extractor reports.                           *)
(***************************************************************************)
Programs ==
    [standard : BOOLEAN, config : BOOLEAN, includeRisks : BOOLEAN,
     account : BOOLEAN, apiToken : BOOLEAN]

\* An optional property: absent, or present with one of the values.
Optional(k, values) == {<< >>} \cup {<<[key |-> k, val |-> v]>> : v \in values}

OrgConfigs ==
    {<<[key |-> K_companyFullName, val |-> Str("Acme")]>> \o c \o d \o g :
        c \in Optional(K_isHIPAACoveredEntity, {JSTrue}),
        d \in Optional(K_lastPenTestDate, {Str("org")}),
        g \in Optional(K_hasPenTestGap, {JSTrue})}

AnswerMappings ==
    {g \o d \o p \o f \o n \o e :
        g \in Optional(K_hasPenTestGap, {JSTrue, JSFalse}),
        d \in Optional(K_lastPenTestDate, {Str("2020-01-01")}),
        p \in Optional(K_lastPenTestProvider, {Str("Acme Security")}),
        f \in Optional(K_penTestFrequency, {Str("annual")}),
        n \in Optional(K_nextPenTestDate, {Str("2021-01-01")}),
        e \in Optional(K_hasEncryptionGap, {JSTrue, JSFalse})}

CPGapPool ==
    {[ref |-> <<"1", "6", "4">>, title |-> "risk analysis"],
     [ref |-> <<"3", "0", "8">>, title |-> "workforce security"]}

CPGapLists == SeqsUpTo(CPGapPool, MaxCPGaps)

(***************************************************************************)
(* run (psp-assess.ts:54-169).                                             *)
(***************************************************************************)
EUSAGEERROR == 126

UsageExitCode == 2

OmittedRisks == "Detailed risk items omitted."

\* process.exit(code)
Exit(code, cause) ==
    /\ pc' = "exited"
    /\ outcome' = [kind |-> "exit", code |-> code]
    /\ failure' = cause

\* error.fatal(message, code): reports the message and terminates the run.
Fatal(code, cause) == Exit(code, cause)

\* An awaited collaborator call rejects: run() rejects with its cause.
Reject(cause) ==
    /\ pc' = "exited"
    /\ outcome' = [kind |-> "rejected", code |-> 0]
    /\ failure' = cause

Init ==
    /\ pc = "start"
    /\ program \in Programs
    /\ config = EmptyObj
    /\ riskList = ""
    /\ calls = NoCalls
    /\ rawAnswers = EmptyObj
    /\ answers = EmptyObj
    /\ inputs = EmptyObj
    /\ inputGaps = << >>
    /\ cpGaps = << >>
    /\ allGaps = << >>
    /\ reportCtx = EmptyObj
    /\ completed = {}
    /\ failure = "none"
    /\ outcome = Running

\* if (!program.standard || !program.config) { outputHelp(); process.exit(2) }
CheckUsage ==
    /\ pc = "start"
    /\ IF ~program.standard \/ ~program.config
       THEN Exit(UsageExitCode, "usage")
       ELSE pc' = "loadConfig" /\ UNCHANGED <<outcome, failure>>
    /\ UNCHANGED <<program, config, riskList, calls, rawAnswers, answers, inputs,
                   inputGaps, cpGaps, allGaps, reportCtx, completed>>

\* config = JSON.parse(fs.readFileSync(configFile)), error.fatal when that throws
LoadConfig ==
    /\ pc = "loadConfig"
    /\ \/ /\ \E org \in OrgConfigs : config' = org
          /\ pc' = "risks"
          /\ UNCHANGED <<outcome, failure>>
       \/ /\ Fatal(EUSAGEERROR, "config")
          /\ UNCHANGED config
    /\ UNCHANGED <<program, riskList, calls, rawAnswers, answers, inputs,
                   inputGaps, cpGaps, allGaps, reportCtx, completed>>

\* Variant: the registry queried whatever includeRisks and the credentials are.
RiskList_AlwaysQuery ==
    /\ pc = "risks"
    /\ calls' = [calls EXCEPT !.risks = @ + 1]
    /\ pc' = "awaitRisks"
    /\ UNCHANGED <<program, config, riskList, rawAnswers, answers, inputs, inputGaps,
                   cpGaps, allGaps, reportCtx, completed, failure, outcome>>

\* if (program.includeRisks) { getRisksFromRegistry(program) ... } else { riskList = '...' }
\* getRisksFromRegistry: the two credential checks, then the client and its query.
RiskList ==
    /\ pc = "risks"
    /\ IF ~program.includeRisks
       THEN /\ riskList' = OmittedRisks
            /\ pc' = "gatherInputs"
            /\ UNCHANGED <<calls, outcome, failure>>
       ELSE IF ~program.account
       THEN Fatal(EUSAGEERROR, "account") /\ UNCHANGED <<calls, riskList>>
       ELSE IF ~program.apiToken
       THEN Fatal(EUSAGEERROR, "apiToken") /\ UNCHANGED <<calls, riskList>>
       ELSE /\ calls' = [calls EXCEPT !.risks = @ + 1]
            /\ pc' = "awaitRisks"
            /\ UNCHANGED <<riskList, outcome, failure>>
    /\ UNCHANGED <<program, config, rawAnswers, answers, inputs, inputGaps,
                   cpGaps, allGaps, reportCtx, completed>>

\* j1Client.queryForEntityList resolves: riskList = assessment.generateRiskList(riskEntities)
RisksResolve ==
    /\ pc = "awaitRisks"
    /\ riskList' = "generateRiskList(riskEntities)"
    /\ pc' = "gatherInputs"
    /\ UNCHANGED <<program, config, calls, rawAnswers, answers, inputs, inputGaps,
                   cpGaps, allGaps, reportCtx, completed, failure, outcome>>

RisksReject ==
    /\ pc = "awaitRisks"
    /\ Reject("riskQuery")
    /\ UNCHANGED <<program, config, riskList, calls, rawAnswers, answers, inputs,
                   inputGaps, cpGaps, allGaps, reportCtx, completed>>

\* gatherInputs up to its await: validateOrgValues(org), then the prompt is issued.
GatherInputsPrompt ==
    /\ pc = "gatherInputs"
    /\ \E valid \in BOOLEAN :
         IF ~valid
         THEN Fatal(EUSAGEERROR, "organization") /\ UNCHANGED calls
         ELSE /\ calls' = [calls EXCEPT !.prompt = @ + 1]
              /\ pc' = "awaitPrompt"
              /\ UNCHANGED <<outcome, failure>>
    /\ UNCHANGED <<program, config, riskList, rawAnswers, answers, inputs,
                   inputGaps, cpGaps, allGaps, reportCtx, completed>>

\* configure.safeInquirerPrompt resolves with the raw answers
PromptResolve ==
    /\ pc = "awaitPrompt"
    /\ \E a \in AnswerMappings : answers' = a /\ rawAnswers' = a
    /\ pc' = "normalize"
    /\ UNCHANGED <<program, config, riskList, calls, inputs, inputGaps,
                   cpGaps, allGaps, reportCtx, completed, failure, outcome>>

PromptReject ==
    /\ pc = "awaitPrompt"
    /\ Reject("prompt")
    /\ UNCHANGED <<program, config, riskList, calls, rawAnswers, answers, inputs,
                   inputGaps, cpGaps, allGaps, reportCtx, completed>>

\* Variant: Object.assign(org, answers, ...) instead of a new object.
GatherInputsReturn_AssignIntoOrg ==
    /\ pc = "normalize"
    /\ answers' = SuppressPenTest(InvertGapAnswers(answers))
    /\ inputs' = GatherContext(config, answers')
    /\ config' = inputs'
    /\ completed' = completed \cup {"gatherInputs"}
    /\ pc' = "calculateInputGaps"
    /\ UNCHANGED <<program, riskList, calls, rawAnswers, inputGaps,
                   cpGaps, allGaps, reportCtx, failure, outcome>>

\* gatherInputs after its await: the inversion and the suppression are written
\* into the answers object itself; the returned context is a new object.
GatherInputsReturn ==
    /\ pc = "normalize"
    /\ answers' = SuppressPenTest(InvertGapAnswers(answers))
    /\ inputs' = GatherContext(config, answers')
    /\ completed' = completed \cup {"gatherInputs"}
    /\ pc' = "calculateInputGaps"
    /\ UNCHANGED <<program, config, riskList, calls, rawAnswers, inputGaps,
                   cpGaps, allGaps, reportCtx, failure, outcome>>

\* const inputGaps = calculateInputGaps(inputs)
InputGapsStep ==
    /\ pc = "calculateInputGaps"
    /\ inputGaps' = calculateInputGaps(inputs)
    /\ completed' = completed \cup {"calculateInputGaps"}
    /\ pc' = "calculateCPGaps"
    /\ UNCHANGED <<program, config, riskList, calls, rawAnswers, answers, inputs,
                   cpGaps, allGaps, reportCtx, failure, outcome>>

\* Variant: calculateCPGaps called without await.
CPGapsCall_NotAwaited ==
    /\ pc = "calculateCPGaps"
    /\ calls' = [calls EXCEPT !.cpGaps = @ + 1]
    /\ pc' = "aggregate"
    /\ UNCHANGED <<program, config, riskList, rawAnswers, answers, inputs, inputGaps,
                   cpGaps, allGaps, reportCtx, completed, failure, outcome>>

\* await assessment.calculateCPGaps(standard, config, paths): the call is issued
CPGapsCall ==
    /\ pc = "calculateCPGaps"
    /\ calls' = [calls EXCEPT !.cpGaps = @ + 1]
    /\ pc' = "awaitCPGaps"
    /\ UNCHANGED <<program, config, riskList, rawAnswers, answers, inputs, inputGaps,
                   cpGaps, allGaps, reportCtx, completed, failure, outcome>>

CPGapsResolve ==
    /\ pc = "awaitCPGaps"
    /\ \E g \in CPGapLists : cpGaps' = g
    /\ completed' = completed \cup {"calculateCPGaps"}
    /\ pc' = "aggregate"
    /\ UNCHANGED <<program, config, riskList, calls, rawAnswers, answers, inputs,
                   inputGaps, allGaps, reportCtx, failure, outcome>>

\* Variant: the rejection caught and the run continued.
CPGapsReject_Swallowed ==
    /\ pc = "awaitCPGaps"
    /\ failure' = "cpGaps"
    /\ completed' = completed \cup {"calculateCPGaps"}
    /\ pc' = "aggregate"
    /\ UNCHANGED <<program, config, riskList, calls, rawAnswers, answers, inputs,
                   inputGaps, cpGaps, allGaps, reportCtx, outcome>>

CPGapsReject ==
    /\ pc = "awaitCPGaps"
    /\ Reject("cpGaps")
    /\ UNCHANGED <<program, config, riskList, calls, rawAnswers, answers, inputs,
                   inputGaps, cpGaps, allGaps, reportCtx, completed>>

\* Variant: cpGaps.concat(inputGaps).
Concat_Reversed(a, b) == b \o a

\* a.concat(b)
Concat(a, b) == a \o b

\* allGaps = inputGaps.concat(cpGaps); gapSummary, gapList, hipaaControlsMapping
Aggregate ==
    /\ pc = "aggregate"
    /\ allGaps' = Concat(inputGaps, cpGaps)
    /\ completed' = completed \cup {"aggregate"}
    /\ pc' = "merge"
    /\ UNCHANGED <<program, config, riskList, calls, rawAnswers, answers, inputs,
                   inputGaps, cpGaps, reportCtx, failure, outcome>>

ReportFields ==
    << [key |-> K_gapList, val |-> Str("generateGapList(allGaps)")],
       [key |-> K_gapSummary, val |-> Str("generateGapSummary(allGaps)")],
       [key |-> K_hipaaControlsMapping,
        val |-> Str("generateStandardControlsMapping(annotatedRefs)")],
       [key |-> K_riskList, val |-> Str(riskList)] >>

\* Object.assign(inputs, { gapList, gapSummary, hipaaControlsMapping, riskList })
MergeReportFields ==
    /\ pc = "merge"
    /\ inputs' = ObjAssign(inputs, ReportFields)
    /\ completed' = completed \cup {"merge"}
    /\ pc' = "generateReport"
    /\ UNCHANGED <<program, config, riskList, calls, rawAnswers, answers,
                   inputGaps, cpGaps, allGaps, reportCtx, failure, outcome>>

\* await assessment.generateReport(inputs, standard, paths): the call is issued
ReportCall ==
    /\ pc = "generateReport"
    /\ calls' = [calls EXCEPT !.report = @ + 1]
    /\ reportCtx' = inputs
    /\ pc' = "awaitReport"
    /\ UNCHANGED <<program, config, riskList, rawAnswers, answers, inputs, inputGaps,
                   cpGaps, allGaps, completed, failure, outcome>>

\* generateReport resolves; the gap count is logged and run() returns
ReportResolve ==
    /\ pc = "awaitReport"
    /\ pc' = "done"
    /\ outcome' = [kind |-> "returned", code |-> 0]
    /\ UNCHANGED <<program, config, riskList, calls, rawAnswers, answers, inputs,
                   inputGaps, cpGaps, allGaps, reportCtx, completed, failure>>

ReportReject ==
    /\ pc = "awaitReport"
    /\ Reject("report")
    /\ UNCHANGED <<program, config, riskList, calls, rawAnswers, answers, inputs,
                   inputGaps, cpGaps, allGaps, reportCtx, completed>>

Next ==
    \/ CheckUsage
    \/ LoadConfig
    \/ RiskList
    \/ RisksResolve
    \/ RisksReject
    \/ GatherInputsPrompt
    \/ PromptResolve
    \/ PromptReject
    \/ GatherInputsReturn
    \/ InputGapsStep
    \/ CPGapsCall
    \/ CPGapsResolve
    \/ CPGapsReject
    \/ Aggregate
    \/ MergeReportFields
    \/ ReportCall
    \/ ReportResolve
    \/ ReportReject

Spec == Init /\ [][Next]_vars

(***************************************************************************)
(* Properties of calculateInputGaps, checked under SpecGaps.               *)
(***************************************************************************)
MatchingKeys(obj) == SelectSeq(ObjKeys(obj), MatchesGapPattern)

Letters(t) == \A i \in DOMAIN t : t[i] \in UpperCase \cup LowerCase

\* t with one space put in front of each position of B.
InsertSpaces(t, B) ==
    LET pos(i) == i + Cardinality({b \in B : b <= i})
    IN  [p \in 1..(Len(t) + Cardinality(B)) |->
            IF \E i \in DOMAIN t : pos(i) = p
            THEN t[CHOOSE i \in DOMAIN t : pos(i) = p]
            ELSE " "]

\* s without its leading and trailing white space.
StripEnds(s) ==
    LET solid == {i \in DOMAIN s : s[i] \notin WhiteSpace}
    IN  IF solid = {} THEN << >> ELSE SubSeq(s, SetMin(solid), SetMax(solid))

\* Positions of an uppercase letter that a lowercase letter follows.
UpperThenLower(t) ==
    {i \in DOMAIN t : i < Len(t) /\ t[i] \in UpperCase /\ t[i + 1] \in LowerCase}

\* Positions of an uppercase letter that follows a lowercase letter.
UpperAfterLower(t) ==
    {i \in DOMAIN t : i > 1 /\ t[i - 1] \in LowerCase /\ t[i] \in UpperCase}

\* C1: the returned gaps are as many as the keys matching has<Topic>Gap whose
\* value is boolean true, each with the title "(see above)"; a key that does not
\* match, or whose value is false or not a boolean, yields no gap.
C1_OneGapPerTrueFlag ==
    pc = "fn_returned" =>
        /\ Len(inputGaps) =
              Cardinality({i \in DOMAIN inputs :
                              /\ MatchesGapPattern(inputs[i].key)
                              /\ inputs[i].val = JSTrue})
        /\ \A n \in DOMAIN inputGaps : inputGaps[n].title = "(see above)"

\* C9: every returned gap has a ref that is not empty and neither starts nor
\* ends with white space.
C9_RefNonEmptyAndTrimmed ==
    pc = "fn_returned" =>
        \A n \in DOMAIN inputGaps :
            /\ inputGaps[n].ref # << >>
            /\ Head(inputGaps[n].ref) \notin WhiteSpace
            /\ inputGaps[n].ref[Len(inputGaps[n].ref)] \notin WhiteSpace

\* C10 as claimed: the ref of each gap is its key's topic with one space inserted
\* wherever a lowercase letter is immediately followed by an uppercase letter,
\* trimmed, for every topic made of letters.
C10_SpaceBetweenLowerAndUpper ==
    pc = "fn_returned" =>
        /\ Len(inputGaps) = Len(MatchingKeys(inputs))
        /\ \A n \in DOMAIN inputGaps :
              LET t == CaptureTopic(MatchingKeys(inputs)[n])
              IN  Letters(t) =>
                      inputGaps[n].ref = StripEnds(InsertSpaces(t, UpperAfterLower(t)))

\* C10 as amended: the ref of each gap is its key's topic with one space inserted
\* in front of every uppercase letter that a lowercase letter immediately follows,
\* trimmed, and no space anywhere else, for every topic made of letters.
C10_SpaceBeforeUpperThenLower ==
    pc = "fn_returned" =>
        /\ Len(inputGaps) = Len(MatchingKeys(inputs))
        /\ \A n \in DOMAIN inputGaps :
              LET t == CaptureTopic(MatchingKeys(inputs)[n])
              IN  Letters(t) =>
                      inputGaps[n].ref = StripEnds(InsertSpaces(t, UpperThenLower(t)))

\* A call has returned "HIPAA Training" for a topic with a run of capitals and
\* "aB" unchanged for a topic starting in lowercase.
C10_Witness ==
    /\ pc = "fn_returned"
    /\ \E n \in DOMAIN inputGaps :
          /\ MatchingKeys(inputs)[n] = K_hasHIPAATrainingGap
          /\ inputGaps[n].ref = <<"H", "I", "P", "A", "A", " ",
                                  "T", "r", "a", "i", "n", "i", "n", "g">>
    /\ \E n \in DOMAIN inputGaps :
          /\ CaptureTopic(MatchingKeys(inputs)[n]) = <<"a", "B">>
          /\ inputGaps[n].ref = <<"a", "B">>

(***************************************************************************)
(* Properties of gatherInputs and run, checked under Spec.                 *)
(***************************************************************************)
Normalized == "gatherInputs" \in completed

\* C2: after normalization every gap-flag answer holds the negation of the raw
\* answer, in the answers object and in the returned context: inverted once.
C2_InvertedExactlyOnce ==
    Normalized =>
        \A i \in DOMAIN rawAnswers :
            LET k == rawAnswers[i].key
                raw == rawAnswers[i].val
            IN  MatchesGapPattern(k) =>
                    /\ raw = JSTrue => Get(answers, k) = JSFalse /\ Get(inputs, k) = JSFalse
                    /\ raw = JSFalse => Get(answers, k) = JSTrue /\ Get(inputs, k) = JSTrue

\* A raw true and a raw false flag both inverted, the organization config
\* carrying a value of its own under one of the two keys.
C2_Witness ==
    /\ Normalized
    /\ Get(rawAnswers, K_hasPenTestGap) = JSTrue
    /\ Get(inputs, K_hasPenTestGap) = JSFalse
    /\ Get(config, K_hasPenTestGap) = JSTrue
    /\ Get(rawAnswers, K_hasEncryptionGap) = JSFalse
    /\ Get(inputs, K_hasEncryptionGap) = JSTrue

\* C3: when hasPenTestGap is true after the inversion, the four pen-test answers
\* of the returned context are all "*TBD*", whatever was answered for them.
C3_PenTestSuppressed ==
    (Normalized /\ Get(answers, K_hasPenTestGap) = JSTrue) =>
        /\ Get(inputs, K_lastPenTestDate) = Str("*TBD*")
        /\ Get(inputs, K_lastPenTestProvider) = Str("*TBD*")
        /\ Get(inputs, K_penTestFrequency) = Str("*TBD*")
        /\ Get(inputs, K_nextPenTestDate) = Str("*TBD*")

\* Suppression has overwritten an answered date, filled in an unanswered one and
\* overridden the organization config's own lastPenTestDate.
C3_Witness ==
    /\ Normalized
    /\ Get(answers, K_hasPenTestGap) = JSTrue
    /\ Get(rawAnswers, K_lastPenTestDate) = Str("2020-01-01")
    /\ ~HasKey(rawAnswers, K_nextPenTestDate)
    /\ HasKey(config, K_lastPenTestDate)
    /\ Get(inputs, K_lastPenTestDate) = Str("*TBD*")
    /\ Get(inputs, K_nextPenTestDate) = Str("*TBD*")

PenTestKeys ==
    {K_lastPenTestDate, K_lastPenTestProvider, K_penTestFrequency, K_nextPenTestDate}

DerivedKeys ==
    {K_date, K_policyTOC, K_isHIPAACoveredEntityText, K_isHIPAABusinessAssociateText}

KeySet(obj) == {obj[i].key : i \in DOMAIN obj}

C5_InputGapsThenCPGaps ==
    "aggregate" \in completed =>
        /\ Len(allGaps) = Len(inputGaps) + Len(cpGaps)
        /\ \A i \in DOMAIN inputGaps : allGaps[i] = inputGaps[i]
        /\ \A j \in DOMAIN cpGaps : allGaps[Len(inputGaps) + j] = cpGaps[j]

\* Aggregation of two input gaps with two different control/procedure gaps.
C5_Witness ==
    /\ "aggregate" \in completed
    /\ Len(inputGaps) = 2
    /\ Len(cpGaps) = 2
    /\ cpGaps[1] # cpGaps[2]
    /\ allGaps[3] = cpGaps[1]

\* C6: aggregation is reached and done only with both extractors completed, and
\* generateReport is called only after the aggregator outputs were merged.
C6_AggregationBarrier ==
    /\ (pc = "aggregate" \/ "aggregate" \in completed) =>
          {"calculateInputGaps", "calculateCPGaps"} \subseteq completed
    /\ "merge" \in completed => "aggregate" \in completed
    /\ (pc = "awaitReport" \/ calls.report > 0) => "merge" \in completed

\* generateReport has been called after every stage of the pipeline.
C6_Witness ==
    /\ pc = "awaitReport"
    /\ calls.cpGaps = 1
    /\ {"calculateInputGaps", "calculateCPGaps", "aggregate", "merge"} \subseteq completed

EarlyFailures ==
    {"usage", "config", "account", "apiToken", "riskQuery", "organization",
     "prompt", "cpGaps"}

\* C7: once a usage/configuration error or a failure of the risk query, the
\* prompt or calculateCPGaps has occurred, the run has ended with a non-zero
\* outcome, takes no further step, and generateReport has not been called; no
\* collaborator is called more than once.
C7_FailFast ==
    /\ \A c \in DOMAIN calls : calls[c] <= 1
    /\ failure \in EarlyFailures =>
          /\ pc = "exited"
          /\ \/ outcome.kind = "rejected"
             \/ outcome.kind = "exit" /\ outcome.code # 0
          /\ calls.report = 0
          /\ reportCtx = EmptyObj
          /\ ~ENABLED Next

\* A run that got as far as the control/procedure extractor and failed there.
C7_Witness ==
    /\ failure = "cpGaps"
    /\ pc = "exited"
    /\ calls.prompt = 1
    /\ calls.cpGaps = 1
    /\ calls.report = 0

\* C8: with includeRisks unset the registry is never queried, the credentials
\* are never the cause of a failure, riskList is the fixed literal and that
\* literal is what the context handed to generateReport carries.
C8_RisksOmitted ==
    ~program.includeRisks =>
        /\ calls.risks = 0
        /\ pc # "awaitRisks"
        /\ failure \notin {"account", "apiToken", "riskQuery"}
        /\ pc \notin {"start", "loadConfig", "risks", "exited"} =>
              riskList = "Detailed risk items omitted."
        /\ calls.report > 0 =>
              Get(reportCtx, K_riskList) = Str("Detailed risk items omitted.")

\* A report generated without risks and without any credentials.
C8_Witness ==
    /\ ~program.includeRisks
    /\ ~program.account
    /\ ~program.apiToken
    /\ pc = "done"
    /\ calls.report = 1
    /\ Get(reportCtx, K_riskList) = Str("Detailed risk items omitted.")

====
